---- MODULE Spec2Model ----
(***************************************************************************)
(* Agentic RAG question answering over the Nigerian tax acts.              *)
(*                                                                         *)
(* The module models the conversational agent of                           *)
(* src/ai_engine/agentic_rag_core.py (AgenticRAGGenerator: the LangGraph   *)
(* graph START -> assistant -> {tools -> assistant | END} compiled with a  *)
(* MemorySaver checkpointer) and the three ways a turn is started:         *)
(* a direct call of AgenticRAGGenerator.query, POST /query and POST /chat  *)
(* (src/ai_engine/api.py, src/backend/main.py).                            *)
(*                                                                         *)
(* A turn is a sequence of supersteps of the compiled graph. Each turn     *)
(* works on its own copy of the channel values, read from the latest       *)
(* checkpoint of its thread when agent.invoke starts, and writes a whole   *)
(* checkpoint after every superstep; the latest checkpoint written is what *)
(* the next agent.invoke on the thread reads.                              *)
(*                                                                         *)
(* The second half models the document index of the same file:             *)
(* DocumentProcessor (load_documents, chunk_documents), VectorStoreManager *)
(* (create_vectorstore, load_vectorstore, retrieve_documents) and          *)
(* build_agentic_rag_system, under the specification IndexSpec.            *)
(*                                                                         *)
(* The last part models the two stateless parts: the tax calculator of     *)
(* POST /calculator (CalcSpec) and the text splitter of the                *)
(* DocumentProcessor (ChunkSpec).                                          *)
(***************************************************************************)
EXTENDS Integers, Sequences, FiniteSets, TLC

\* ---------------------------------------------------------------- bounds
\* Supersteps one agent.invoke may take. query() passes no recursion_limit,
\* so the graph runs with the library default (25); the model runs the same
\* loop with a smaller limit, and every formula is stated relative to it.
\* With an even limit the step guard ends a looping turn after a tools step,
\* with an odd one after an assistant step.
recursion_limit == 4

\* ------------------------------------------------------------ value sets
\* The requests of a run; they may be in flight at the same time.
Reqs == {1, 2}
ChatIds == {1, 2}
NoChat == 0

\* The registered users; NoUser is what get_user_from_auth_header returns for
\* a request without a valid bearer token.
Users == {1, 2}
NoUser == 0

\* str(chat.id), the thread id POST /chat hands to the agent
str(n) == CASE n = 1 -> "1" [] n = 2 -> "2" [] OTHER -> "0"

\* f"thread_{uuid.uuid4()}", the thread id POST /query makes up when the
\* request carries none
FreshThread == "thread_u"
NoThread == ""
Threads == {str(n) : n \in ChatIds} \cup {FreshThread}

\* The tool calls one ai message carries when it carries any: a single call,
\* or calls to be run in parallel.
ToolCalls == {1, 2}

Min(a, b) == IF a <= b THEN a ELSE b

\* python's None, and a value that is not None
None == <<>>
Some(v) == <<v>>

\* ---------------------------------------------------------------- messages
\* A message is identified by (turn, idx): add_messages gives every message
\* without an id a fresh uuid. content is TRUE when the text is non-empty.
NoId == <<0, 0>>
MsgId(m) == <<m.turn, m.idx>>

HumanMessage(t) ==
    [type |-> "human", turn |-> t, idx |-> 0, content |-> TRUE, tool_calls |-> 0]

AIMessage(t, i, c, n) ==
    [type |-> "ai", turn |-> t, idx |-> i, content |-> c, tool_calls |-> n]

ToolMessage(t, i) ==
    [type |-> "tool", turn |-> t, idx |-> i, content |-> TRUE, tool_calls |-> 0]

system_prompt ==
    [type |-> "system", turn |-> 0, idx |-> 0, content |-> TRUE, tool_calls |-> 0]

\* A channel without the reducer: the write replaces the list.
add_messages_overwrite(left, right) == right

\* MessagesState's reducer: a message whose id is already in the list
\* replaces that entry, any other message is appended.
RECURSIVE add_messages(_, _)
add_messages(left, right) ==
    IF right = <<>> THEN left
    ELSE LET m == Head(right)
             hit == {i \in 1..Len(left) : MsgId(left[i]) = MsgId(m)}
             merged == IF hit = {}
                       THEN Append(left, m)
                       ELSE [i \in 1..Len(left) |-> IF i \in hit THEN m ELSE left[i]]
         IN add_messages(merged, Tail(right))

VARIABLES
    rag_generator,   \* TRUE when startup built the agent (module global)
    store,           \* MemorySaver: thread id -> messages of its latest checkpoint
    active_threads,  \* /query's thread tracking (module global)
    query_counter,   \* /query's metric (module global)
    chats,           \* chat ids in the relational store
    owner,           \* chat id -> Chat.user_id
    transcript,      \* chat id -> the chat's stored messages, in order
    nreq,            \* requests accepted so far
    pc,              \* per request: where its handler stands
    via,             \* per request: the entry point it came through
    thread,          \* per request: the thread id of its turn
    chat,            \* per request: the chat of a /chat request
    user,            \* per request: the user its bearer token stands for
    turn,            \* per request: the number of its turn
    base,            \* per request: the messages agent.invoke read at its start
    channel,         \* per request: the turn's own channel values ("messages")
    step,            \* per request: supersteps of the graph's nodes run so far
    seen,            \* per request: what the last llm call was given
    decides,         \* per request: assistant supersteps run
    retrievals,      \* per request: tools supersteps run
    outcome,         \* per request: how agent.invoke ended
    resp             \* per request: what the caller got

shared == <<rag_generator, store, active_threads, query_counter, chats, owner, transcript,
            nreq>>
perreq == <<pc, via, thread, chat, user, turn, base, channel, step, seen, decides,
            retrievals, outcome, resp>>

\* The document index (modelled in the second half of the module).
VARIABLES
    folder,             \* the files in the documents folder
    rejects_none,       \* TRUE when the installed Chroma refuses None metadata values
    persist_directory,  \* TRUE when ./chroma_db exists, the collection in it
    collection,         \* the entries of the persisted collection "tax_act"
    vectorstore,        \* VectorStoreManager.vectorstore of the process's manager
    builds,             \* create_vectorstore calls so far
    last                \* the last call on the index and what it returned

index == <<folder, rejects_none, persist_directory, collection, vectorstore, builds, last>>

\* The parts of the service that keep no state between calls, each with the
\* arguments and the result of its last call: the text splitter of the
\* DocumentProcessor and the /calculator endpoint.
VARIABLES
    text_splitter,   \* the splitter's chunk_size and chunk_overlap, None if not constructed
    page_content,    \* the text of the page last given to the splitter
    pieces,          \* the texts of the chunks the splitter made of it
    calc_req,        \* the body of the last POST /calculator
    calc_resp        \* the response to it

pure == <<text_splitter, page_content, pieces, calc_req, calc_resp>>
vars == <<shared, perreq, index, pure>>

NoCall == [op |-> "none", error |-> "", embedded |-> 0, query |-> 0, k |-> 0,
           fetch_k |-> 0, results |-> <<>>]

\* The index as the agent's turns leave it: no call on it.
NoIndex ==
    /\ folder = {}
    /\ rejects_none = FALSE
    /\ persist_directory = FALSE
    /\ collection = <<>>
    /\ vectorstore = None
    /\ builds = 0
    /\ last = NoCall

\* No splitter constructed, no call of the calculator.
NoPure ==
    /\ text_splitter = None
    /\ page_content = <<>>
    /\ pieces = <<>>
    /\ calc_req = None
    /\ calc_resp = None

NoResp == [status |-> 0, kind |-> "none", answer |-> NoId]
NoSeen == [n |-> 0, first |-> "none", systems |-> 0]

Init ==
    /\ rag_generator \in BOOLEAN
    /\ store = [t \in Threads |-> <<>>]
    /\ active_threads = {}
    /\ query_counter = 0
    /\ chats = {}
    /\ owner = [c \in ChatIds |-> NoUser]
    /\ transcript = [c \in ChatIds |-> <<>>]
    /\ nreq = 0
    /\ pc = [r \in Reqs |-> "idle"]
    /\ via = [r \in Reqs |-> "query"]
    /\ thread = [r \in Reqs |-> NoThread]
    /\ chat = [r \in Reqs |-> NoChat]
    /\ user = [r \in Reqs |-> NoUser]
    /\ turn = [r \in Reqs |-> 0]
    /\ base = [r \in Reqs |-> <<>>]
    /\ channel = [r \in Reqs |-> <<>>]
    /\ step = [r \in Reqs |-> 0]
    /\ seen = [r \in Reqs |-> NoSeen]
    /\ decides = [r \in Reqs |-> 0]
    /\ retrievals = [r \in Reqs |-> 0]
    /\ outcome = [r \in Reqs |-> "none"]
    /\ resp = [r \in Reqs |-> NoResp]
    /\ NoIndex
    /\ NoPure


\* ------------------------------------------------- the agent's pure parts
\* assistant(): the list handed to the llm. The system prompt is put in
\* front of the state's messages unless the first of them is a system message.
assistant_messages(messages) ==
    IF messages = <<>> \/ messages[1].type # "system"
    THEN <<system_prompt>> \o messages
    ELSE messages

\* What the model records of an llm call's input.
Summary(messages) ==
    [n |-> Len(messages),
     first |-> IF messages = <<>> THEN "none" ELSE messages[1].type,
     systems |-> Cardinality({i \in 1..Len(messages) : messages[i].type = "system"})]

\* Routing on the text of the last message instead of its tool calls.
should_continue_on_content(messages) ==
    IF messages[Len(messages)].content THEN "tools" ELSE "__end__"

\* should_continue(): route on the last message's tool calls only.
should_continue(messages) ==
    IF messages[Len(messages)].tool_calls > 0 THEN "tools" ELSE "__end__"

\* The answers the llm capability may give to one call, besides failing
\* (an error or a timeout): an ai message with no tool call, with or without
\* text, or an ai message with tool calls. query() and
\* should_continue() never read the text of a message that carries tool
\* calls; the model gives those messages text, the case in which query()'s
\* test of tool_calls decides.
LLMResponses ==
    [content : BOOLEAN, tool_calls : {0}] \cup [content : {TRUE}, tool_calls : ToolCalls]

\* A loop with no step guard.
out_of_steps_never(k) == FALSE

\* The graph's step guard: after the k-th superstep of the graph's nodes the
\* loop is out of steps when k has reached the recursion limit.
out_of_steps(k) == k >= recursion_limit

\* query(): the content of the last ai message of the result that has
\* content and no tool calls; None (NoId) when there is none.
IsAnswer(message) ==
    message.type = "ai" /\ message.content /\ message.tool_calls = 0

final_answer(messages) ==
    LET S == {i \in 1..Len(messages) : IsAnswer(messages[i])}
    IN IF S = {} THEN NoId
       ELSE MsgId(messages[CHOOSE i \in S : \A j \in S : j <= i])

\* Only the first tool call of the message is answered.
tool_messages_first_only(t, i, n) == [k \in 1..Min(n, 1) |-> ToolMessage(t, i + k - 1)]

\* The tool messages ToolNode returns for the calls of the last ai message,
\* one per call.
tool_messages(t, i, n) == [k \in 1..n |-> ToolMessage(t, i + k - 1)]

\* ---------------------------------------------------------- entry points
\* Requests arrive in the order of their numbers.
Free(r) ==
    /\ pc[r] = "idle"
    /\ \A q \in Reqs : q < r => pc[q] # "idle"

\* POST /query is an async handler that never awaits: the event loop runs
\* one such handler at a time, from its first line to its return.
EventLoopFree == \A q \in Reqs : via[q] = "/query" => pc[q] \in {"idle", "returned"}

Accept(r, e, t, c) ==
    /\ via' = [via EXCEPT ![r] = e]
    /\ thread' = [thread EXCEPT ![r] = t]
    /\ chat' = [chat EXCEPT ![r] = c]
    /\ turn' = [turn EXCEPT ![r] = nreq + 1]
    /\ nreq' = nreq + 1
    /\ base' = [base EXCEPT ![r] = <<>>]
    /\ channel' = [channel EXCEPT ![r] = <<>>]
    /\ step' = [step EXCEPT ![r] = 0]
    /\ seen' = [seen EXCEPT ![r] = NoSeen]
    /\ decides' = [decides EXCEPT ![r] = 0]
    /\ retrievals' = [retrievals EXCEPT ![r] = 0]
    /\ outcome' = [outcome EXCEPT ![r] = "none"]

\* A direct call of AgenticRAGGenerator.query(user_input, thread_id).
QueryCall(r, t) ==
    /\ Free(r)
    /\ rag_generator
    /\ Accept(r, "query", t, NoChat)
    /\ user' = [user EXCEPT ![r] = NoUser]
    /\ pc' = [pc EXCEPT ![r] = "invoke"]
    /\ resp' = [resp EXCEPT ![r] = NoResp]
    /\ UNCHANGED <<index, pure, owner, rag_generator, store, active_threads, query_counter, chats,
                   transcript>>

FreshUnused ==
    /\ store[FreshThread] = <<>>
    /\ FreshThread \notin active_threads
    /\ \A q \in Reqs : thread[q] # FreshThread

\* POST /query up to the call of rag_generator.query.
SubmitQuery(r, tid) ==
    /\ Free(r)
    /\ EventLoopFree
    /\ user' = [user EXCEPT ![r] = NoUser]
    /\ \/ /\ ~rag_generator
          /\ Accept(r, "/query", NoThread, NoChat)
          /\ pc' = [pc EXCEPT ![r] = "returned"]
          /\ resp' = [resp EXCEPT ![r] = [status |-> 503, kind |-> "error", answer |-> NoId]]
          /\ UNCHANGED active_threads
       \/ /\ rag_generator
          /\ tid # NoThread
          /\ Accept(r, "/query", tid, NoChat)
          /\ active_threads' = active_threads \cup {tid}
          /\ pc' = [pc EXCEPT ![r] = "invoke"]
          /\ resp' = [resp EXCEPT ![r] = NoResp]
       \/ /\ rag_generator
          /\ tid = NoThread
          /\ FreshUnused
          /\ Accept(r, "/query", FreshThread, NoChat)
          /\ active_threads' = active_threads \cup {FreshThread}
          /\ pc' = [pc EXCEPT ![r] = "invoke"]
          /\ resp' = [resp EXCEPT ![r] = NoResp]
    /\ UNCHANGED <<index, pure, owner, rag_generator, store, query_counter, chats, transcript>>

UserMessage(t) == [role |-> "user", text |-> "message", ref |-> <<t, 0>>]
AssistantMessage(text, ref) == [role |-> "assistant", text |-> text, ref |-> ref]

\* POST /chat of an authenticated user up to the call of rag_generator.query:
\* the chat is created (ids are handed out in sequence) or looked up, and the
\* user's message is stored.
\* The row that db.query(Chat).filter(Chat.id == chat_id, Chat.user_id ==
\* user.id).first() finds, NoChat when there is none; chat_of_anyone leaves
\* the user_id filter out.
chat_of_anyone(u, cid) ==
    IF cid \in chats THEN cid ELSE NoChat

chat_of(u, cid) ==
    IF cid \in chats /\ owner[cid] = u THEN cid ELSE NoChat

ChatEndpoint(r, u, cid) ==
    /\ Free(r)
    /\ user' = [user EXCEPT ![r] = u]
    /\ LET new == Cardinality(chats) + 1
           c == IF cid = NoChat THEN new ELSE chat_of(u, cid)
       IN \/ /\ u = NoUser
             /\ Accept(r, "/chat", NoThread, NoChat)
             /\ pc' = [pc EXCEPT ![r] = "returned"]
             /\ resp' = [resp EXCEPT ![r] = [status |-> 401, kind |-> "error", answer |-> NoId]]
             /\ UNCHANGED <<chats, owner, transcript>>
          \/ /\ u # NoUser
             /\ cid # NoChat
             /\ c = NoChat
             /\ Accept(r, "/chat", NoThread, cid)
             /\ pc' = [pc EXCEPT ![r] = "returned"]
             /\ resp' = [resp EXCEPT ![r] = [status |-> 404, kind |-> "error", answer |-> NoId]]
             /\ UNCHANGED <<chats, owner, transcript>>
          \/ /\ u # NoUser
             /\ c \in ChatIds
             /\ rag_generator
             /\ chats' = chats \cup {c}
             /\ owner' = IF cid = NoChat THEN [owner EXCEPT ![c] = u] ELSE owner
             /\ transcript' = [transcript EXCEPT ![c] = Append(@, UserMessage(nreq + 1))]
             /\ Accept(r, "/chat", str(c), c)
             /\ pc' = [pc EXCEPT ![r] = "invoke"]
             /\ resp' = [resp EXCEPT ![r] = NoResp]
          \/ /\ u # NoUser
             /\ c \in ChatIds
             /\ ~rag_generator
             /\ chats' = chats \cup {c}
             /\ owner' = IF cid = NoChat THEN [owner EXCEPT ![c] = u] ELSE owner
             /\ transcript' = [transcript EXCEPT ![c] =
                    @ \o <<UserMessage(nreq + 1), AssistantMessage("not initialized", NoId)>>]
             /\ Accept(r, "/chat", str(c), c)
             /\ pc' = [pc EXCEPT ![r] = "returned"]
             /\ resp' = [resp EXCEPT ![r] = [status |-> 200, kind |-> "not initialized", answer |-> NoId]]
    /\ UNCHANGED <<index, pure, rag_generator, store, active_threads, query_counter>>


\* ------------------------------------------------------- the turn's loop
\* A saver that does not key its storage by thread id.
put_every_thread(st, t, values) == [u \in DOMAIN st |-> values]

\* MemorySaver.put: the checkpoint written last is the thread's latest; the
\* storage is keyed by the thread id of the config.
put(st, t, values) == [st EXCEPT ![t] = values]

Idx(r) == Len(channel[r]) - Len(base[r])

\* agent.invoke enters the loop: the thread's latest checkpoint is read, the
\* turn's channels are restored from it, and the input checkpoint (the
\* restored channels, the input pending) is written back.
Enter(r) ==
    LET values == store[thread[r]]
    IN /\ pc[r] = "invoke"
       /\ base' = [base EXCEPT ![r] = values]
       /\ channel' = [channel EXCEPT ![r] = values]
       /\ store' = put(store, thread[r], values)
       /\ pc' = [pc EXCEPT ![r] = "start"]
       /\ UNCHANGED <<index, pure, owner, user, rag_generator, active_threads, query_counter, chats, transcript,
                      nreq, via, thread, chat, turn, step, seen, decides,
                      retrievals, outcome, resp>>

\* The START superstep: the HumanMessage of the input is written to the
\* messages channel and the checkpoint is saved.
StartStep(r) ==
    LET values == add_messages(channel[r], <<HumanMessage(turn[r])>>)
    IN /\ pc[r] = "start"
       /\ channel' = [channel EXCEPT ![r] = values]
       /\ store' = put(store, thread[r], values)
       /\ pc' = [pc EXCEPT ![r] = "assistant"]
       /\ UNCHANGED <<index, pure, owner, user, rag_generator, active_threads, query_counter, chats, transcript,
                      nreq, via, thread, chat, turn, base, step, seen, decides,
                      retrievals, outcome, resp>>

\* Where the loop goes after a superstep that left `values` in the channel.
AfterStep(r, k, values, next) ==
    IF out_of_steps(k)
    THEN /\ pc' = [pc EXCEPT ![r] = "end"]
         /\ outcome' = [outcome EXCEPT ![r] = "GraphRecursionError"]
    ELSE IF next = "__end__"
    THEN /\ pc' = [pc EXCEPT ![r] = "end"]
         /\ outcome' = [outcome EXCEPT ![r] = "done"]
    ELSE /\ pc' = [pc EXCEPT ![r] = next]
         /\ UNCHANGED outcome

\* The assistant superstep: the llm is called with the state's messages (the
\* system prompt in front); its response alone is written to the channel.
\* A failure of the call ends agent.invoke with the exception.
Assistant(r) ==
    /\ pc[r] = "assistant"
    /\ seen' = [seen EXCEPT ![r] = Summary(assistant_messages(channel[r]))]
    /\ decides' = [decides EXCEPT ![r] = @ + 1]
    /\ \/ /\ pc' = [pc EXCEPT ![r] = "end"]
          /\ outcome' = [outcome EXCEPT ![r] = "CapabilityError"]
          /\ UNCHANGED <<store, channel, step>>
       \/ \E response \in LLMResponses :
            LET message == AIMessage(turn[r], Idx(r), response.content, response.tool_calls)
                values == add_messages(channel[r], <<message>>)
            IN /\ channel' = [channel EXCEPT ![r] = values]
               /\ store' = put(store, thread[r], values)
               /\ step' = [step EXCEPT ![r] = @ + 1]
               /\ AfterStep(r, step[r] + 1, values, should_continue(values))
    /\ UNCHANGED <<index, pure, owner, user, rag_generator, active_threads, query_counter, chats, transcript, nreq,
                   via, thread, chat, turn, base, retrievals, resp>>

\* The tools superstep: ToolNode runs retrieve_documents for every tool call
\* of the last ai message and writes one tool message per call. A retrieval
\* that fails either ends agent.invoke with the exception or, when the
\* installed ToolNode handles tool errors, becomes a tool message carrying
\* the error text, and the loop goes on as after a retrieval that worked.
ToolsNode(r) ==
    /\ pc[r] = "tools"
    /\ retrievals' = [retrievals EXCEPT ![r] = @ + 1]
    /\ \/ /\ pc' = [pc EXCEPT ![r] = "end"]
          /\ outcome' = [outcome EXCEPT ![r] = "CapabilityError"]
          /\ UNCHANGED <<store, channel, step>>
       \/ LET calls == channel[r][Len(channel[r])].tool_calls
              values == add_messages(channel[r], tool_messages(turn[r], Idx(r), calls))
          IN /\ channel' = [channel EXCEPT ![r] = values]
             /\ store' = put(store, thread[r], values)
             /\ step' = [step EXCEPT ![r] = @ + 1]
             /\ AfterStep(r, step[r] + 1, values, "assistant")
    /\ UNCHANGED <<index, pure, owner, user, rag_generator, active_threads, query_counter, chats, transcript, nreq,
                   via, thread, chat, turn, base, seen, decides, resp>>

\* ------------------------------------------------------------- the return
\* query() after agent.invoke: the result's messages are scanned for the
\* answer; an exception of agent.invoke leaves query() as it is.
QueryReturn(r) ==
    /\ pc[r] = "end"
    /\ via[r] = "query"
    /\ resp' = [resp EXCEPT ![r] =
           IF outcome[r] = "done"
           THEN [status |-> 0, kind |-> "result", answer |-> final_answer(channel[r])]
           ELSE [status |-> 0, kind |-> "exception", answer |-> NoId]]
    /\ pc' = [pc EXCEPT ![r] = "returned"]
    /\ UNCHANGED <<index, pure, shared, user, via, thread, chat, turn, base, channel, step, seen, decides,
                   retrievals, outcome>>

\* POST /query after rag_generator.query: the counter, then the response.
\* QueryResponse.answer is a required str: with answer None building the
\* response raises, and the handler's except turns every exception into 500.
SubmitQueryReturn(r) ==
    /\ pc[r] = "end"
    /\ via[r] = "/query"
    /\ LET answer == final_answer(channel[r])
       IN \/ /\ outcome[r] = "done"
             /\ answer # NoId
             /\ query_counter' = query_counter + 1
             /\ resp' = [resp EXCEPT ![r] = [status |-> 200, kind |-> "high", answer |-> answer]]
          \/ /\ outcome[r] = "done"
             /\ answer = NoId
             /\ query_counter' = query_counter + 1
             /\ resp' = [resp EXCEPT ![r] = [status |-> 500, kind |-> "error", answer |-> NoId]]
          \/ /\ outcome[r] # "done"
             /\ UNCHANGED query_counter
             /\ resp' = [resp EXCEPT ![r] = [status |-> 500, kind |-> "error", answer |-> NoId]]
    /\ pc' = [pc EXCEPT ![r] = "returned"]
    /\ UNCHANGED <<index, pure, owner, user, rag_generator, store, active_threads, chats, transcript, nreq,
                   via, thread, chat, turn, base, channel, step, seen, decides,
                   retrievals, outcome>>

\* POST /chat after rag_generator.query: the reply text is the answer, a
\* fixed text when the answer is None, or the exception's text; it is stored
\* as the assistant's message and returned with status 200.
ChatReturn(r) ==
    /\ pc[r] = "end"
    /\ via[r] = "/chat"
    /\ LET answer == final_answer(channel[r])
           reply == IF outcome[r] # "done" THEN "Error generating response"
                    ELSE IF answer = NoId THEN "couldn't find an answer"
                    ELSE "answer"
           ref == IF outcome[r] = "done" THEN answer ELSE NoId
       IN /\ transcript' = [transcript EXCEPT ![chat[r]] = Append(@, AssistantMessage(reply, ref))]
          /\ resp' = [resp EXCEPT ![r] = [status |-> 200, kind |-> reply, answer |-> ref]]
    /\ pc' = [pc EXCEPT ![r] = "returned"]
    /\ UNCHANGED <<index, pure, owner, user, rag_generator, store, active_threads, query_counter, chats, nreq,
                   via, thread, chat, turn, base, channel, step, seen, decides,
                   retrievals, outcome>>

\* DELETE /threads/{thread_id}: an async handler like POST /query. The thread
\* is taken out of active_threads (status 200), or is not in it (404); the
\* agent and its checkpointer are not touched.
DeleteThread(tid) ==
    /\ EventLoopFree
    /\ \/ /\ tid \in active_threads
          /\ active_threads' = active_threads \ {tid}
       \/ /\ tid \notin active_threads
          /\ UNCHANGED active_threads
    /\ UNCHANGED <<index, pure, rag_generator, store, query_counter, chats, owner, transcript, nreq,
                   perreq>>

\* Who may send the next /chat request: nobody with a valid token, or a
\* registered user. The users are interchangeable, so they are numbered in the
\* order in which they first appear as the owner of a chat.
Callers ==
    {NoUser} \cup {u \in Users : u <= Cardinality({owner[c] : c \in chats}) + 1}

Next ==
    \/ \E r \in Reqs, t \in Threads \ {FreshThread} : QueryCall(r, t)
    \/ \E r \in Reqs, tid \in (Threads \ {FreshThread}) \cup {NoThread} : SubmitQuery(r, tid)
    \/ \E r \in Reqs, u \in Callers, cid \in ChatIds \cup {NoChat} : ChatEndpoint(r, u, cid)
    \/ \E r \in Reqs : Enter(r)
    \/ \E r \in Reqs : StartStep(r)
    \/ \E r \in Reqs : Assistant(r)
    \/ \E r \in Reqs : ToolsNode(r)
    \/ \E r \in Reqs : QueryReturn(r)
    \/ \E r \in Reqs : SubmitQueryReturn(r)
    \/ \E r \in Reqs : ChatReturn(r)
    \/ \E tid \in Threads : DeleteThread(tid)

Spec == Init /\ [][Next]_vars


\* ------------------------------------------------------ terms of the claims
\* The messages the turn of r has appended to what it read.
Appended(r) == SubSeq(channel[r], Len(base[r]) + 1, Len(channel[r]))

OfType(seq, ty) == {i \in 1..Len(seq) : seq[i].type = ty}

\* agent.invoke of r has ended / ended with a result.
Ended(r) == pc[r] \in {"end", "returned"}
Completed(r) == Ended(r) /\ outcome[r] = "done"

\* No other request works on the thread of r.
Alone(r) == \A q \in Reqs \ {r} : thread[q] # thread[r]

\* DECIDE/RETRIEVE cycles a turn can run before the step guard ends it: the
\* tools supersteps among recursion_limit supersteps that start with assistant.
StepBudget == recursion_limit \div 2

\* Occurrences in seq of the message with the id of m.
Occurrences(seq, m) == Cardinality({i \in 1..Len(seq) : MsgId(seq[i]) = MsgId(m)})

\* ---------------------------------------------------------------- claims

\* C1: two turns started concurrently on one thread id are serialized, and
\* once both have completed the persisted history holds every message either
\* turn appended exactly once, its length being the prior length plus the
\* appends of both. Stated here for the final history.
C1_ConcurrentTurnsKeepEveryAppend ==
    \A p \in Reqs : \A q \in Reqs \ {p} :
        (thread[p] = thread[q] /\ Completed(p) /\ Completed(q)) =>
            LET h == store[thread[p]]
            IN /\ \A i \in 1..Len(Appended(p)) : Occurrences(h, Appended(p)[i]) = 1
               /\ \A i \in 1..Len(Appended(q)) : Occurrences(h, Appended(q)[i]) = 1
               /\ Len(h) = Min(Len(base[p]), Len(base[q]))
                           + Len(Appended(p)) + Len(Appended(q))

\* C2: when the capability asks for a tool call at every step and the loop
\* runs out of steps, query() returns a response object (with an "unable to
\* complete" answer), never an exception.
EveryDecisionCalledTool(r) ==
    \A i \in OfType(Appended(r), "ai") : Appended(r)[i].tool_calls > 0

C2_BudgetExceededReturnsAnswer ==
    \A r \in Reqs :
        (pc[r] = "returned" /\ via[r] = "query" /\ step[r] >= recursion_limit
            /\ EveryDecisionCalledTool(r))
        => resp[r].kind = "result"

\* C3: after a turn that failed on a capability call, the persisted history
\* of its thread is what it was before the turn started.
C3_FailedTurnLeavesHistory ==
    \A r \in Reqs :
        (Ended(r) /\ outcome[r] = "CapabilityError" /\ Alone(r))
        => store[thread[r]] = base[r]

\* C4: every non-empty persisted history starts with the system instruction
\* and holds it exactly once.
C4_SystemInstructionFirst ==
    \A t \in Threads :
        store[t] # <<>> =>
            /\ store[t][1].type = "system"
            /\ Cardinality(OfType(store[t], "system")) = 1

C6_AnswerNeverNull ==
    \A r \in Reqs :
        (pc[r] = "returned" /\ via[r] = "query" /\ resp[r].kind = "result")
        => resp[r].answer # NoId

\* C7: a turn whose capability failed reaches the caller as an error: query
\* raises, and /query and /chat answer with an error status, never with a
\* reply text under status 200.
C7_FailureIsStructuredError ==
    \A r \in Reqs :
        (pc[r] = "returned" /\ outcome[r] = "CapabilityError") =>
            /\ via[r] = "query" => resp[r].kind = "exception"
            /\ via[r] # "query" => resp[r].status # 200

\* C8: every turn ends within recursion_limit supersteps, hence within
\* StepBudget retrievals and StepBudget + 1 decisions, whatever the
\* capability answers; a turn that has not ended can always take its next
\* step.
C8_TurnIsBounded ==
    \A r \in Reqs :
        /\ step[r] <= recursion_limit
        /\ retrievals[r] <= StepBudget
        /\ decides[r] <= StepBudget + 1
        /\ pc[r] \in {"assistant", "tools"} =>
              /\ step[r] < recursion_limit
              /\ ENABLED (Assistant(r) \/ ToolsNode(r))

C8_Witness ==
    \E r \in Reqs :
        /\ Ended(r)
        /\ outcome[r] = "GraphRecursionError"
        /\ EveryDecisionCalledTool(r)
        /\ retrievals[r] = StepBudget

\* C9: a turn whose first decision carries no tool call takes exactly one
\* assistant step and no tools step, and appends exactly one ai message
\* after the user's message.
FirstDecisionWithoutToolCall(r) ==
    /\ Len(Appended(r)) >= 2
    /\ Appended(r)[2].type = "ai"
    /\ Appended(r)[2].tool_calls = 0

C9_DirectAnswerTakesOneStep ==
    \A r \in Reqs :
        FirstDecisionWithoutToolCall(r) =>
            /\ Ended(r)
            /\ decides[r] = 1
            /\ retrievals[r] = 0
            /\ Len(Appended(r)) = 2
            /\ Appended(r)[1] = HumanMessage(turn[r])
            /\ Alone(r) => store[thread[r]] = channel[r]

C9_Witness ==
    \E r \in Reqs :
        /\ FirstDecisionWithoutToolCall(r)
        /\ Completed(r)
        /\ base[r] # <<>>

\* C10 as stated: a completed turn with N retrievals, N below the step
\* budget, has appended exactly N tool messages and N + 1 ai messages, in
\* strict alternation, and its last ai message has content and no tool call.
C10_StrictAlternation ==
    \A r \in Reqs :
        (Completed(r) /\ retrievals[r] < StepBudget) =>
            LET a == Appended(r)
                N == retrievals[r]
            IN /\ Len(a) = 2 * N + 2
               /\ Cardinality(OfType(a, "tool")) = N
               /\ Cardinality(OfType(a, "ai")) = N + 1
               /\ \A i \in 2..Len(a) :
                    a[i].type = (IF i % 2 = 0 THEN "ai" ELSE "tool")
               /\ a[Len(a)].content /\ a[Len(a)].tool_calls = 0

\* C10 amended: a completed turn with N tools steps has N below the step
\* budget and has appended N + 1 ai messages; every ai message with tool
\* calls is followed by one tool message per call and then by the next ai
\* message; the turn ended at its first ai message without tool call,
\* whether or not that message has content. A turn the step guard ended had
\* used the whole budget.
C10_ToolRoundsInterleave ==
    \A r \in Reqs :
        /\ Completed(r) =>
            LET a == Appended(r)
                N == retrievals[r]
                ai == OfType(a, "ai")
            IN /\ N < StepBudget
               /\ a[1].type = "human"
               /\ Cardinality(ai) = N + 1
               /\ \A i \in ai :
                    LET n == a[i].tool_calls
                    IN IF n = 0 THEN i = Len(a)
                       ELSE /\ i + n + 1 <= Len(a)
                            /\ \A j \in (i + 1)..(i + n) : a[j].type = "tool"
                            /\ a[i + n + 1].type = "ai"
               /\ a[2].type = "ai"
               /\ a[Len(a)].type = "ai" /\ a[Len(a)].tool_calls = 0
        /\ (Ended(r) /\ outcome[r] = "GraphRecursionError") => retrievals[r] >= StepBudget

C10_Witness ==
    \E r \in Reqs :
        /\ Completed(r)
        /\ retrievals[r] >= 1
        /\ \E i \in OfType(Appended(r), "ai") : Appended(r)[i].tool_calls = 2
        /\ ~Appended(r)[Len(Appended(r))].content

\* C11: a turn on one thread id never changes the persisted history of any
\* other thread id: every step that changes the history of thread t is a
\* step of a request whose turn runs on t.
C11_OtherThreadsUntouched ==
    [][\A t \in Threads :
        store'[t] # store[t] =>
            \E r \in Reqs : thread[r] = t /\ pc'[r] # pc[r]]_vars

\* A turn completed on its thread while an earlier request's turn on another
\* thread was in the middle of its loop, with its messages persisted.
C11_Witness ==
    \E p \in Reqs : \E q \in Reqs \ {p} :
        /\ thread[p] # thread[q]
        /\ turn[p] < turn[q]
        /\ pc[p] = "tools"
        /\ Completed(q)
        /\ store[thread[p]] = channel[p]
        /\ store[thread[q]] = channel[q]

\* C12: at the step at which a turn's result is returned to the caller, the
\* persisted history of its thread holds every message of the turn (the
\* user's message and the final answer among them) after the history the
\* turn started from, at least two messages more.
C12_WritesVisibleAtReturn ==
    [][\A r \in Reqs :
        (pc[r] = "end" /\ pc'[r] = "returned" /\ outcome[r] = "done"
            /\ final_answer(Appended(r)) # NoId) =>
            LET h == store'[thread[r]]
            IN /\ Len(h) >= Len(base[r]) + 2
               /\ \A i \in 1..Len(Appended(r)) : Occurrences(h, Appended(r)[i]) = 1]_vars


\* C24: whenever no turn is executing on a thread, every ai message of its
\* persisted history that carries tool calls is immediately followed by the
\* tool messages answering them.
Executing(t) ==
    \E r \in Reqs : thread[r] = t /\ pc[r] \in {"invoke", "start", "assistant", "tools"}

ToolCallsAnswered(h) ==
    \A i \in 1..Len(h) :
        (h[i].type = "ai" /\ h[i].tool_calls > 0) =>
            /\ i + h[i].tool_calls <= Len(h)
            /\ \A j \in (i + 1)..(i + h[i].tool_calls) :
                  h[j].type = "tool" /\ h[j].turn = h[i].turn

C24_NoDanglingToolCall ==
    \A t \in Threads : ~Executing(t) => ToolCallsAnswered(store[t])

\* C25: the answer a turn returns is the content of an ai message produced
\* during that turn, never of a message of an earlier turn of the thread.
C25_AnswerIsFromThisTurn ==
    \A r \in Reqs :
        (pc[r] = "returned" /\ resp[r].answer # NoId) => resp[r].answer[1] = turn[r]

\* C26: when the agent produced no answer, POST /query responds with status
\* 200, the text "Unable to provide an answer" and confidence "low"; with an
\* answer the confidence is "high".
C26_NoAnswerIsLowConfidence ==
    \A r \in Reqs :
        (pc[r] = "returned" /\ via[r] = "/query" /\ outcome[r] = "done") =>
            /\ resp[r].status = 200
            /\ resp[r].kind = (IF final_answer(channel[r]) = NoId THEN "low" ELSE "high")


\* C23: when DELETE /threads/{thread_id} succeeds, the conversation memory
\* of the thread is cleared, so that the next query with the thread id
\* starts from an empty history.
C23_DeleteClearsMemory ==
    [][\A t \in Threads :
        (t \in active_threads /\ t \notin active_threads') => store'[t] = <<>>]_vars

\* Request r is accepted by the step: every accepted request takes a new turn
\* number.
Accepted(r) == turn'[r] # turn[r]

\* C28: the memory of the thread of an existing chat c is used only by /chat
\* turns of the owner of c: an HTTP request accepted onto thread str(c) came
\* through /chat with the owner's token, never through POST /query.
C28_ChatMemoryIsPrivate ==
    [][\A r \in Reqs, c \in chats :
          (Accepted(r) /\ thread'[r] = str(c) /\ via'[r] # "query") =>
              via'[r] = "/chat" /\ user'[r] = owner[c]]_vars

\* C29: a POST /chat request without a valid bearer token, or naming a chat
\* that does not belong to its user, is answered 401 respectively 404 at once:
\* the step writes no transcript, creates no chat, leaves the conversation
\* memory alone and the request never enters an agent turn.
C29_RefusedChatWritesNothing ==
    [][\A r \in Reqs :
          (/\ Accepted(r)
           /\ via'[r] = "/chat"
           /\ \/ user'[r] = NoUser
              \/ chat'[r] \in chats /\ owner[chat'[r]] # user'[r]
              \/ resp'[r].status \in {401, 404}) =>
              /\ resp'[r].status = (IF user'[r] = NoUser THEN 401 ELSE 404)
              /\ pc'[r] = "returned"
              /\ transcript' = transcript
              /\ chats' = chats
              /\ owner' = owner
              /\ store' = store]_vars

\* A refusal where there was something to protect: a 404 for a chat that
\* exists, belongs to somebody else and has a transcript and a conversation
\* memory.
C29_Witness ==
    \E r \in Reqs :
        /\ pc[r] = "returned" /\ via[r] = "/chat" /\ resp[r].status = 404
        /\ chat[r] \in chats
        /\ user[r] \in Users \ {owner[chat[r]]}
        /\ transcript[chat[r]] # <<>>
        /\ store[str(chat[r])] # <<>>


\* ========================================================================
\* The document index: DocumentProcessor, VectorStoreManager and
\* build_agentic_rag_system of src/ai_engine/agentic_rag_core.py.
\* ========================================================================

\* int(s) for the digit strings of the model
int(s) == CASE s = "1" -> 1 [] s = "2" -> 2 [] s = "2025" -> 2025 [] OTHER -> 0

\* s.isdigit() for the strings of the model
isdigit(s) == s \in {"1", "2", "2025"}

\* s.lower() for the file extensions and the tax types of the model
lower(s) == CASE s \in {".PDF", ".Pdf"} -> ".pdf" [] s = "VAT" -> "vat" [] OTHER -> s

\* ------------------------------------------------------- the source folder
\* A file of the documents folder: its name (the words of the stem, joined
\* by "_" in the real name, and the extension), whether PyPDFLoader can parse
\* it, and its pages. A page has the page_label the loader reports (None
\* when it reports none) and its text, given as the topics of the pieces the
\* text splitter cuts it into; a topic stands for the embedding of a piece.
Page(label, topics) == [page_label |-> label, topics |-> topics]

TaxAct ==
    [stem |-> <<"Nigeria", "Tax", "Act", "2025">>, ext |-> ".pdf", corrupt |-> FALSE,
     pages |-> <<Page(Some("1"), <<0, 0>>), Page(Some("2"), <<3>>)>>]

ServiceAct ==
    [stem |-> <<"Revenue", "Service", "Act", "EDITED">>, ext |-> ".PDF", corrupt |-> FALSE,
     pages |-> <<Page(Some("iv"), <<1>>), Page(None, <<2>>)>>]

Notes ==
    [stem |-> <<"notes">>, ext |-> ".txt", corrupt |-> FALSE, pages |-> <<>>]

Scan ==
    [stem |-> <<"Scan", "2025">>, ext |-> ".pdf", corrupt |-> TRUE, pages |-> <<>>]

\* os.listdir(documents_folder), for the folder holding every file of the model
Listing == <<TaxAct, ServiceAct, Notes, Scan>>
Files == {Listing[i] : i \in 1..Len(Listing)}

\* --------------------------------------------------------- DocumentProcessor
\* extract_act_metadata(): ".pdf" is cut out of the name as written (a name
\* ending in ".PDF" keeps its extension), the year is the first 20xx of the
\* name, the title is the name without the ingestion words.
name_of(file) == IF file.ext = ".pdf" THEN file.stem ELSE Append(file.stem, file.ext)

year_of(name) ==
    LET hits == {i \in 1..Len(name) : name[i] \in {"2025"}}
    IN IF hits = {} THEN None
       ELSE Some(int(name[CHOOSE i \in hits : \A j \in hits : i <= j]))

clean_title(name) == SelectSeq(name, LAMBDA w : w \notin {"EDITED", "FRIDAY"})

\* clean_title.title(), word by word: the first letter of a word in upper
\* case and the others in lower case. The other words of the model are
\* written that way already.
title(name) ==
    [i \in 1..Len(name) |->
        CASE name[i] \in {".PDF", ".pdf"} -> ".Pdf"
          [] name[i] = ".txt" -> ".Txt"
          [] name[i] = "notes" -> "Notes"
          [] OTHER -> name[i]]

extract_act_metadata(file) ==
    [document_title |-> title(clean_title(name_of(file))),
     act_name |-> title(clean_title(name_of(file))),
     year |-> year_of(name_of(file)),
     source_file |-> <<file.stem, file.ext>>]

\* The metadata load_documents gives the n-th page of a file.
page_metadata(file, n) ==
    LET page_label == file.pages[n].page_label
        page_number == IF page_label # None /\ isdigit(page_label[1])
                       THEN Some(int(page_label[1])) ELSE None
    IN [document_title |-> extract_act_metadata(file).document_title,
        act_name |-> extract_act_metadata(file).act_name,
        year |-> extract_act_metadata(file).year,
        source_file |-> extract_act_metadata(file).source_file,
        page_number |-> page_number]

\* The pages one file contributes: none for a name that does not end in
\* ".pdf" (compared in lower case).
file_pages(file) ==
    IF lower(file.ext) # ".pdf" THEN <<>>
    ELSE [n \in 1..Len(file.pages) |->
            [file |-> file.stem, page |-> n, topics |-> file.pages[n].topics,
             metadata |-> page_metadata(file, n)]]

\* load_documents(): the pages of every ".pdf" file of the folder, in the
\* order of the listing. A file the loader cannot parse raises out of the
\* loop: the call ends with the exception and returns no page.
RECURSIVE load_documents(_, _)
load_documents(listing, documents_folder) ==
    IF listing = <<>> THEN [error |-> FALSE, pages |-> <<>>]
    ELSE LET file == Head(listing)
             rest == load_documents(Tail(listing), documents_folder)
         IN IF file \notin documents_folder THEN rest
            ELSE IF lower(file.ext) = ".pdf" /\ file.corrupt
            THEN [error |-> TRUE, pages |-> <<>>]
            ELSE IF rest.error THEN rest
            ELSE [error |-> FALSE, pages |-> file_pages(file) \o rest.pages]

\* chunk_documents(): every page is split into its pieces, each a chunk
\* carrying a copy of the page's metadata. A chunk's identity is its
\* position: document, page and offset within the page.
page_chunks(page) ==
    [j \in 1..Len(page.topics) |->
        [file |-> page.file, page |-> page.page, offset |-> j,
         topic |-> page.topics[j], metadata |-> page.metadata]]

RECURSIVE chunk_documents(_)
chunk_documents(documents) ==
    IF documents = <<>> THEN <<>>
    ELSE page_chunks(Head(documents)) \o chunk_documents(Tail(documents))

Identity(chunk) == <<chunk.file, chunk.page, chunk.offset>>

\* -------------------------------------------------------- VectorStoreManager
\* create_vectorstore calls the model follows (each gives its entries ids of
\* their own).
MaxBuilds == 2

\* The embedding of a text is its topic; the embedding of a query is the
\* topic asked about.
Topics == {0, 1, 2, 3}

\* The topics queries ask about.
Queries == {1, 3}

\* The k the llm may put into a retrieve_documents tool call (default 5).
Ks == {0, 2, 5, 11}

\* The candidates the retriever fetches before the re-ranking.
fetch_k == 10

\* Similarity of two embeddings: the closer the topics, the higher.
similarity(a, b) == IF a >= b THEN 3 - (a - b) ELSE 3 - (b - a)

\* The chunk's metadata holds a None value.
HasNone(chunk) ==
    \E key \in DOMAIN chunk.metadata : chunk.metadata[key] = None

\* A store that writes every chunk as soon as it is embedded.
add_documents_each(entries, chunks, embedded, build) ==
    entries \o [i \in 1..embedded |-> [id |-> <<build, i>>, chunk |-> chunks[i]]]

\* Chroma.add_documents(chunks): the texts are embedded first, all of them,
\* and then written in one upsert under fresh ids; `embedded` is the number
\* of chunks embedded when the embedding call returned or raised.
add_documents(entries, chunks, embedded, build) ==
    IF embedded < Len(chunks) THEN entries
    ELSE entries \o [i \in 1..Len(chunks) |-> [id |-> <<build, i>>, chunk |-> chunks[i]]]

\* The exceptions add_documents may end with, "" standing for none: the
\* embedding call failed, the store refused a None metadata value, or the
\* list of chunks was empty (an upsert of no ids, which Chroma versions
\* either refuse or take as nothing to do).
add_documents_errors(chunks, embedded) ==
    IF embedded < Len(chunks) THEN {"EmbeddingError"}
    ELSE IF chunks = <<>> THEN {"", "ValueError"}
    ELSE IF rejects_none /\ \E i \in 1..Len(chunks) : HasNone(chunks[i]) THEN {"ValueError"}
    ELSE {""}

\* The index with the highest score, the first of them on a tie.
ArgMax(idxs, score) ==
    CHOOSE i \in idxs : \A j \in idxs : score[i] > score[j] \/ (score[i] = score[j] /\ i <= j)

\* The collection's query: the n entries nearest to the query, nearest first.
RECURSIVE nearest(_, _, _, _)
nearest(entries, taken, query, n) ==
    LET left == (1..Len(entries)) \ taken
    IN IF n <= 0 \/ left = {} THEN <<>>
       ELSE LET i == ArgMax(left, [j \in left |-> similarity(query, entries[j].chunk.topic)])
            IN <<entries[i]>> \o nearest(entries, taken \cup {i}, query, n - 1)

\* maximal_marginal_relevance with lambda_mult 0.5: the candidate most
\* similar to the query first, then, one at a time, the candidate with the
\* best similarity to the query less its highest similarity to a candidate
\* already selected; `idxs` are the candidates selected so far, in order.
RECURSIVE maximal_marginal_relevance(_, _, _, _)
maximal_marginal_relevance(query, candidates, idxs, k) ==
    IF Len(idxs) >= Min(k, Len(candidates)) THEN idxs
    ELSE LET left == (1..Len(candidates)) \ {idxs[i] : i \in 1..Len(idxs)}
             query_score(i) == similarity(query, candidates[i].chunk.topic)
             redundant_score(i) ==
                 LET to_selected == {similarity(candidates[i].chunk.topic,
                                                candidates[idxs[j]].chunk.topic) :
                                        j \in 1..Len(idxs)}
                 IN CHOOSE x \in to_selected : \A y \in to_selected : y <= x
             equation_score(i) ==
                 IF idxs = <<>> THEN query_score(i)
                 ELSE query_score(i) - redundant_score(i)
         IN maximal_marginal_relevance(query, candidates,
                Append(idxs, ArgMax(left, [i \in left |-> equation_score(i)])), k)

\* retrieve_documents(query, k) on a vector store: the retriever fetches
\* fetch_k candidates, re-ranks them and keeps k; every document becomes a
\* result with its content and metadata (`entry` names the entry it is).
retrieve_documents(entries, query, k) ==
    LET candidates == nearest(entries, {}, query, fetch_k)
        idxs == maximal_marginal_relevance(query, candidates, <<>>, k)
    IN [n \in 1..Len(idxs) |->
           LET doc == candidates[idxs[n]]
           IN [content |-> doc.chunk.topic,
               document_title |-> doc.chunk.metadata.document_title,
               act_name |-> doc.chunk.metadata.act_name,
               page_number |-> doc.chunk.metadata.page_number,
               year |-> doc.chunk.metadata.year,
               source_file |-> doc.chunk.metadata.source_file,
               entry |-> doc]]

\* get_stats()["total_chunks"]: collection.count()
total_chunks == Len(collection)

\* ------------------------------------------------------ calls on the index
Call(op, error, embedded, query, k, fk, results) ==
    [op |-> op, error |-> error, embedded |-> embedded, query |-> query, k |-> k,
     fetch_k |-> fk, results |-> results]

\* No agent turn runs while the index is built and queried.
NoAgent ==
    /\ rag_generator = FALSE
    /\ store = [t \in Threads |-> <<>>]
    /\ active_threads = {}
    /\ query_counter = 0
    /\ chats = {}
    /\ owner = [c \in ChatIds |-> NoUser]
    /\ transcript = [c \in ChatIds |-> <<>>]
    /\ nreq = 0
    /\ pc = [r \in Reqs |-> "idle"]
    /\ via = [r \in Reqs |-> "query"]
    /\ thread = [r \in Reqs |-> NoThread]
    /\ chat = [r \in Reqs |-> NoChat]
    /\ user = [r \in Reqs |-> NoUser]
    /\ turn = [r \in Reqs |-> 0]
    /\ base = [r \in Reqs |-> <<>>]
    /\ channel = [r \in Reqs |-> <<>>]
    /\ step = [r \in Reqs |-> 0]
    /\ seen = [r \in Reqs |-> NoSeen]
    /\ decides = [r \in Reqs |-> 0]
    /\ retrievals = [r \in Reqs |-> 0]
    /\ outcome = [r \in Reqs |-> "none"]
    /\ resp = [r \in Reqs |-> NoResp]

\* The index before any call: some files in the folder, no ./chroma_db, a
\* manager just constructed.
IndexInit ==
    /\ NoAgent
    /\ NoPure
    /\ folder \in SUBSET Files
    /\ rejects_none \in BOOLEAN
    /\ persist_directory = FALSE
    /\ collection = <<>>
    /\ vectorstore = None
    /\ builds = 0
    /\ last = NoCall

\* Files are added to or removed from the documents folder.
FolderChanges(files) ==
    /\ files # folder
    /\ folder' = files
    /\ last' = NoCall
    /\ UNCHANGED <<rejects_none, persist_directory, collection, vectorstore, builds>>
    /\ UNCHANGED <<shared, perreq, pure>>

\* VectorStoreManager(): a new manager, no vector store created or loaded.
NewManager ==
    /\ vectorstore' = None
    /\ last' = Call("VectorStoreManager", "", 0, 0, 0, 0, <<>>)
    /\ UNCHANGED <<folder, rejects_none, persist_directory, collection, builds>>
    /\ UNCHANGED <<shared, perreq, pure>>

\* create_vectorstore(chunks), called as `op`: the Chroma object is made
\* (which creates ./chroma_db and the collection when they are missing) and
\* kept in self.vectorstore, then the chunks are added.
create_vectorstore(chunks, op) ==
    /\ builds < MaxBuilds
    /\ builds' = builds + 1
    /\ persist_directory' = TRUE
    /\ vectorstore' = Some("tax_act")
    /\ \E embedded \in 0..Len(chunks) :
         \E error \in add_documents_errors(chunks, embedded) :
            /\ collection' = IF error = "ValueError" THEN collection
                             ELSE add_documents(collection, chunks, embedded, builds + 1)
            /\ last' = Call(op, error, embedded, 0, 0, 0, <<>>)
    /\ UNCHANGED <<folder, rejects_none>>
    /\ UNCHANGED <<shared, perreq, pure>>

\* Build: create_vectorstore called with the chunks of the folder's documents.
CreateVectorstore ==
    LET documents == load_documents(Listing, folder)
    IN /\ ~documents.error
       /\ create_vectorstore(chunk_documents(documents.pages), "create_vectorstore")

\* Open: load_vectorstore() makes the Chroma object in the same way, and
\* adds nothing.
load_vectorstore(op) ==
    /\ persist_directory' = TRUE
    /\ vectorstore' = Some("tax_act")
    /\ last' = Call(op, "", 0, 0, 0, 0, <<>>)
    /\ UNCHANGED <<folder, rejects_none, collection, builds>>
    /\ UNCHANGED <<shared, perreq, pure>>

LoadVectorstore == load_vectorstore("load_vectorstore")

\* Load: load_documents(documents_folder) on its own.
LoadDocuments ==
    LET documents == load_documents(Listing, folder)
    IN /\ last' = Call("load_documents", IF documents.error THEN "IngestError" ELSE "",
                       0, 0, 0, 0, documents.pages)
       /\ UNCHANGED <<folder, rejects_none, persist_directory, collection, vectorstore, builds>>
       /\ UNCHANGED <<shared, perreq, pure>>

\* BuildIndex: build_agentic_rag_system(documents_folder). The documents are
\* loaded and chunked first; then ./chroma_db decides between loading the
\* collection and creating it from the chunks.
BuildIndex ==
    LET documents == load_documents(Listing, folder)
        chunks == chunk_documents(documents.pages)
    IN \/ /\ documents.error
          /\ last' = Call("build_agentic_rag_system", "IngestError", 0, 0, 0, 0, <<>>)
          /\ UNCHANGED <<folder, rejects_none, persist_directory, collection,
                         vectorstore, builds>>
          /\ UNCHANGED <<shared, perreq, pure>>
       \/ /\ ~documents.error
          /\ persist_directory
          /\ load_vectorstore("build_agentic_rag_system")
       \/ /\ ~documents.error
          /\ ~persist_directory
          /\ create_vectorstore(chunks, "build_agentic_rag_system")

\* Query: retrieve_documents(query, k), as the retrieval tool calls it with
\* the arguments of the llm's tool call. Without a vector store the first
\* line raises (None has no as_retriever).
Retrieve(query, k) ==
    /\ \/ /\ vectorstore = None
          /\ last' = Call("retrieve_documents", "AttributeError", 0, query, k, 0, <<>>)
       \/ /\ vectorstore # None
          /\ last' = Call("retrieve_documents", "", 0, query, k, fetch_k,
                          retrieve_documents(collection, query, k))
    /\ UNCHANGED <<folder, rejects_none, persist_directory, collection, vectorstore, builds>>
    /\ UNCHANGED <<shared, perreq, pure>>

IndexNext ==
    \/ \E files \in SUBSET Files : FolderChanges(files)
    \/ NewManager
    \/ LoadDocuments
    \/ CreateVectorstore
    \/ LoadVectorstore
    \/ BuildIndex
    \/ \E query \in Queries, k \in Ks : Retrieve(query, k)

IndexSpec == IndexInit /\ [][IndexNext]_vars


\* ------------------------------------------------- claims about the index
Retrieved == last.op = "retrieve_documents" /\ last.error = ""

\* C13: if the embedding fails part-way through a build, no entry of that
\* build is persisted: after the failed create_vectorstore the collection
\* holds no entry with an id of that build.
C13_FailedBuildPersistsNothing ==
    (last.op \in {"create_vectorstore", "build_agentic_rag_system"}
        /\ last.error = "EmbeddingError")
    => \A i \in 1..Len(collection) : collection[i].id[1] # builds

\* The second build failed after it had embedded some of its chunks, the
\* entries of the first build being in the collection.
C13_Witness ==
    /\ last.op = "create_vectorstore"
    /\ last.error = "EmbeddingError"
    /\ last.embedded >= 1
    /\ builds = 2
    /\ collection # <<>>

\* C14: when ./chroma_db exists, BuildIndex opens the collection and embeds
\* and adds nothing, leaving the total chunk count unchanged, whatever the
\* documents folder holds.
C14_ExistingIndexIsOpened ==
    [][(persist_directory /\ last'.op = "build_agentic_rag_system") =>
            /\ last'.error = ""
            /\ vectorstore' # None
            /\ last'.embedded = 0
            /\ collection' = collection]_vars

\* C15: Open on a collection that was never persisted fails with
\* NotFoundError and creates no collection.
C15_OpenOfMissingCollectionFails ==
    [][(~persist_directory /\ last'.op = "load_vectorstore") =>
            /\ last'.error = "NotFoundError"
            /\ ~persist_directory']_vars

\* C16: Query with k = 0, Query against an empty collection and Query with
\* no vector store created or loaded return an empty sequence and raise no
\* error.
C16_EmptyQueryReturnsNothing ==
    (last.op = "retrieve_documents"
        /\ (last.k = 0 \/ collection = <<>> \/ vectorstore = None))
    => (last.error = "" /\ last.results = <<>>)

\* C17: for every retrieval executed, with whatever k the llm supplied,
\* fetch_k is at least k and at most k results are returned.
C17_FetchKCoversK ==
    Retrieved => (last.fetch_k >= last.k /\ Len(last.results) <= last.k)

\* C18: the results of a Query are in strictly decreasing order of relevance
\* to the query and no two of them are the same chunk (document, page and
\* offset), whatever builds made the collection.
C18_RankedWithoutDuplicates ==
    Retrieved =>
        \A i \in 1..Len(last.results) : \A j \in 1..Len(last.results) :
            i < j =>
                /\ similarity(last.query, last.results[i].content)
                       > similarity(last.query, last.results[j].content)
                /\ Identity(last.results[i].entry.chunk) # Identity(last.results[j].entry.chunk)

\* C19: a file of the folder that cannot be parsed is skipped: Load ends
\* without an exception and returns the pages of every file it can parse.
C19_CorruptFileIsSkipped ==
    last.op = "load_documents" =>
        /\ last.error = ""
        /\ \A file \in folder :
              (lower(file.ext) = ".pdf" /\ ~file.corrupt) =>
                  \A n \in 1..Len(file.pages) :
                      \E i \in 1..Len(last.results) :
                          last.results[i].file = file.stem /\ last.results[i].page = n

\* C20: every result of the retrieval tool has an act_name and a
\* page_number that are not None, the page_number being the page of the
\* document the result's text is from.
C20_ResultsCarryProvenance ==
    Retrieved =>
        \A i \in 1..Len(last.results) :
            /\ last.results[i].act_name # None
            /\ last.results[i].page_number # None
            /\ last.results[i].page_number = Some(last.results[i].entry.chunk.page)

\* C27: BuildIndex opens a collection only if a build completed. After the
\* only build so far has failed in add_documents, the next BuildIndex that
\* gets past reading the folder builds the index again (a build counts in
\* builds) and does not open what the failed build left behind.
C27_FailedBuildIsRebuilt ==
    [][(/\ builds = 1
        /\ last.op \in {"create_vectorstore", "build_agentic_rag_system"}
        /\ last.error \in {"EmbeddingError", "ValueError"}
        /\ last'.op = "build_agentic_rag_system"
        /\ last'.error # "IngestError") =>
           builds' = builds + 1]_vars

\* C32: the document_title and the act_name of every page Load returns do
\* not hold the extension of the page's file, in whatever case the file name
\* or the title has it.
C32_TitleWithoutExtension ==
    last.op = "load_documents" =>
        \A i \in 1..Len(last.results) :
            LET metadata == last.results[i].metadata
            IN /\ \A w \in 1..Len(metadata.document_title) :
                      lower(metadata.document_title[w]) # lower(metadata.source_file[2])
               /\ \A w \in 1..Len(metadata.act_name) :
                      lower(metadata.act_name[w]) # lower(metadata.source_file[2])

\* ======================================================================
\* The tax calculator: POST /calculator of the backend. The amounts of a
\* request are whole naira; the amounts of a response are counted in kobo
\* (hundredths, the two decimals the handler rounds to) and its tax_rate in
\* ten-thousandths (the four decimals it rounds to).

\* round(n / d, digits) as a whole number of the last digit kept, for d > 0;
\* a tie goes to the even neighbour.
round(n, d) ==
    LET q == n \div d
        r == n % d
    IN IF 2 * r < d THEN q
       ELSE IF 2 * r > d THEN q + 1
       ELSE IF q % 2 = 0 THEN q ELSE q + 1

\* The request bodies: schemas.TaxCalculatorRequest. An amount is optional.
TaxTypes == {"vat", "VAT", "income_tax", "cit", "paye"}
Incomes == {None, Some(0), Some(1), Some(300000), Some(300001), Some(600000), Some(600001),
            Some(1800000), Some(1800001)}
Purchases == {None, Some(0), Some(100000), Some(250000)}
TaxCalculatorRequest ==
    [tax_type : TaxTypes, gross_income : Incomes, purchase_amount : Purchases]

\* Python's truth value of an optional amount: None and 0 are false.
truthy(amount) == amount # None /\ amount[1] # 0

TaxCalculatorResponse(tax_type, gross_amount, tax_amount, net_amount, tax_rate) ==
    [status |-> 200, detail |-> "", tax_type |-> tax_type, gross_amount |-> gross_amount,
     tax_amount |-> tax_amount, net_amount |-> net_amount, tax_rate |-> tax_rate]

HTTPException(status_code, detail) ==
    [status |-> status_code, detail |-> detail, tax_type |-> "", gross_amount |-> 0,
     tax_amount |-> 0, net_amount |-> 0, tax_rate |-> 0]

\* The progressive brackets: the tax on an income, in kobo.
income_tax_amount(income) ==
    IF income <= 300000 THEN 0
    ELSE IF income <= 600000 THEN (income - 300000) * 7
    ELSE IF income <= 1800000 THEN 2100000 + (income - 600000) * 11
    ELSE 15320000 + (income - 1800000) * 15

\* calculate_tax(calc_req). The else branch raises its HTTPException(400)
\* inside the try, where `except Exception` catches it and raises the 500.
calculate_tax(req) ==
    LET tax_type == lower(req.tax_type)
    IN IF tax_type = "vat" /\ truthy(req.purchase_amount)
       THEN LET purchase_amount == req.purchase_amount[1]
            IN TaxCalculatorResponse("VAT", purchase_amount * 100,
                                     round(purchase_amount * 75, 10),
                                     round(purchase_amount * 1075, 10), 750)
       ELSE IF tax_type = "income_tax" /\ truthy(req.gross_income)
       THEN LET income == req.gross_income[1]
                tax_amount == income_tax_amount(income)
            IN TaxCalculatorResponse("Personal Income Tax", income * 100, tax_amount,
                                     income * 100 - tax_amount,
                                     IF income > 0 THEN round(tax_amount * 100, income) ELSE 0)
       ELSE IF tax_type = "cit" /\ truthy(req.gross_income)
       THEN LET gross_income == req.gross_income[1]
            IN TaxCalculatorResponse("Corporate Income Tax", gross_income * 100,
                                     gross_income * 30, gross_income * 70, 3000)
       ELSE HTTPException(500, "Calculation failed: Invalid tax type or missing amount")

\* The state of the other parts while only the pure parts are called.
Idle ==
    /\ NoAgent
    /\ NoIndex

CalcInit ==
    /\ Idle
    /\ NoPure

\* POST /calculator with the body req.
CalculateTax(req) ==
    /\ calc_req' = Some(req)
    /\ calc_resp' = Some(calculate_tax(req))
    /\ UNCHANGED <<text_splitter, page_content, pieces>>
    /\ UNCHANGED <<shared, perreq, index>>

CalcNext ==
    \E req \in TaxCalculatorRequest : CalculateTax(req)

CalcSpec == CalcInit /\ [][CalcNext]_vars

\* The amount the tax type of a request needs is there (and not zero).
Supported(req) ==
    \/ lower(req.tax_type) = "vat" /\ truthy(req.purchase_amount)
    \/ lower(req.tax_type) \in {"income_tax", "cit"} /\ truthy(req.gross_income)

\* C30: a request with an unsupported tax type, or without the amount its
\* tax type needs, is answered with status 400.
C30_BadRequestIs400 ==
    (calc_req # None /\ ~Supported(calc_req[1])) => calc_resp[1].status = 400

\* The net_amount of the income_tax response for a gross income.
net_of(income) ==
    calculate_tax([tax_type |-> "income_tax", gross_income |-> income,
                   purchase_amount |-> None]).net_amount

\* C31: the net_amount of an income_tax response is non-decreasing in the
\* gross income: it is at least the net_amount of every smaller income.
C31_NetIsMonotonic ==
    (/\ calc_req # None
     /\ lower(calc_req[1].tax_type) = "income_tax"
     /\ truthy(calc_req[1].gross_income)) =>
        \A income \in Incomes :
            (truthy(income) /\ income[1] <= calc_req[1].gross_income[1]) =>
                net_of(income) <= calc_resp[1].net_amount

\* ======================================================================
\* The chunker: DocumentProcessor and its RecursiveCharacterTextSplitter
\* (separators "\n\n", "\n", " ", "", the separator kept at the start of the
\* split that follows it, whitespace stripped). A text is a sequence of
\* characters.
MaxText == 4
MaxChunk == 3
Alphabet == {"a", " ", "\n"}
Texts == UNION {[1..n -> Alphabet] : n \in 0..MaxText}
separators == <<(<<"\n", "\n">>), (<<"\n">>), (<<" ">>), (<<>>)>>

\* text.strip()
RECURSIVE lstrip(_)
lstrip(text) ==
    IF text # <<>> /\ text[1] \in {" ", "\n"} THEN lstrip(Tail(text)) ELSE text

RECURSIVE rstrip(_)
rstrip(text) ==
    IF text # <<>> /\ text[Len(text)] \in {" ", "\n"}
    THEN rstrip(SubSeq(text, 1, Len(text) - 1))
    ELSE text

strip(text) == rstrip(lstrip(text))

\* "".join(docs)
RECURSIVE join(_)
join(docs) ==
    IF docs = <<>> THEN <<>> ELSE Head(docs) \o join(Tail(docs))

\* _join_docs: the joined and stripped text; nothing when that is empty.
join_docs(docs) ==
    LET text == strip(join(docs))
    IN IF text = <<>> THEN <<>> ELSE <<text>>

\* re.search(separator, text)
contains(text, separator) ==
    \E i \in 1..Len(text) :
        /\ i + Len(separator) - 1 <= Len(text)
        /\ SubSeq(text, i, i + Len(separator) - 1) = separator

\* re.split with the separator captured and put in front of what follows
\* it: the scan from position i, `piece` being the split under way.
RECURSIVE re_split(_, _, _, _, _)
re_split(text, separator, i, piece, splits) ==
    IF i > Len(text) THEN Append(splits, piece)
    ELSE IF /\ i + Len(separator) - 1 <= Len(text)
            /\ SubSeq(text, i, i + Len(separator) - 1) = separator
    THEN re_split(text, separator, i + Len(separator), separator, Append(splits, piece))
    ELSE re_split(text, separator, i + 1, Append(piece, text[i]), splits)

\* _split_text_with_regex(text, separator, keep_separator=True): the empty
\* separator gives the characters; empty splits are dropped.
split_text_with_regex(text, separator) ==
    LET splits == IF separator # <<>> THEN re_split(text, separator, 1, <<>>, <<>>)
                  ELSE [i \in 1..Len(text) |-> <<text[i]>>]
    IN SelectSeq(splits, LAMBDA split : split # <<>>)

\* The while loop of _merge_splits: splits leave the front of current_doc
\* until what stays is no longer than the overlap and the next split, of
\* length len, fits.
RECURSIVE pop_front(_, _, _, _)
pop_front(current_doc, len, chunk_size, chunk_overlap) ==
    LET total == Len(join(current_doc))
    IN IF total > chunk_overlap \/ (total + len > chunk_size /\ total > 0)
       THEN pop_front(Tail(current_doc), len, chunk_size, chunk_overlap)
       ELSE current_doc

RECURSIVE merge_loop(_, _, _, _, _)
merge_loop(splits, current_doc, docs, chunk_size, chunk_overlap) ==
    IF splits = <<>> THEN docs \o join_docs(current_doc)
    ELSE LET d == Head(splits)
             full == /\ Len(join(current_doc)) + Len(d) > chunk_size
                     /\ current_doc # <<>>
         IN merge_loop(Tail(splits),
                       Append(IF full THEN pop_front(current_doc, Len(d), chunk_size, chunk_overlap)
                              ELSE current_doc, d),
                       IF full THEN docs \o join_docs(current_doc) ELSE docs,
                       chunk_size, chunk_overlap)

\* merge_splits_whole joins all the splits into one chunk, whatever its size.
merge_splits_whole(splits, chunk_size, chunk_overlap) ==
    join_docs(splits)

\* _merge_splits(splits, separator) with the separator "" that
\* keep_separator=True gives it.
merge_splits(splits, chunk_size, chunk_overlap) ==
    merge_loop(splits, <<>>, <<>>, chunk_size, chunk_overlap)

\* _split_text(text, separators): the first separator found in the text
\* splits it; short splits are merged, a long one goes to the separators
\* that are left, or into the result as it is when none is left.
RECURSIVE recursive_split(_, _, _, _)
RECURSIVE split_loop(_, _, _, _, _, _)
recursive_split(text, seps, chunk_size, chunk_overlap) ==
    LET found == {i \in 1..Len(seps) : seps[i] = <<>> \/ contains(text, seps[i])}
        first == CHOOSE i \in found : \A j \in found : i <= j
        separator == seps[first]
        new_separators == IF separator = <<>> THEN <<>>
                          ELSE SubSeq(seps, first + 1, Len(seps))
    IN split_loop(split_text_with_regex(text, separator), <<>>, <<>>, new_separators,
                  chunk_size, chunk_overlap)

split_loop(splits, good_splits, final_chunks, new_separators, chunk_size, chunk_overlap) ==
    LET merged == IF good_splits # <<>>
                  THEN merge_splits(good_splits, chunk_size, chunk_overlap)
                  ELSE <<>>
    IN IF splits = <<>> THEN final_chunks \o merged
       ELSE IF Len(Head(splits)) < chunk_size
       THEN split_loop(Tail(splits), Append(good_splits, Head(splits)), final_chunks,
                       new_separators, chunk_size, chunk_overlap)
       ELSE split_loop(Tail(splits), <<>>,
                       final_chunks \o merged \o
                           (IF new_separators = <<>> THEN <<Head(splits)>>
                            ELSE recursive_split(Head(splits), new_separators,
                                                 chunk_size, chunk_overlap)),
                       new_separators, chunk_size, chunk_overlap)

\* split_text(text)
split_text(text, chunk_size, chunk_overlap) ==
    recursive_split(text, separators, chunk_size, chunk_overlap)

\* RecursiveCharacterTextSplitter(chunk_size, chunk_overlap): the constructor
\* raises ValueError for a chunk_size that is not positive, a negative
\* chunk_overlap and a chunk_overlap larger than chunk_size.
RecursiveCharacterTextSplitter(chunk_size, chunk_overlap) ==
    IF chunk_size <= 0 \/ chunk_overlap < 0 \/ chunk_overlap > chunk_size
    THEN None
    ELSE Some([chunk_size |-> chunk_size, chunk_overlap |-> chunk_overlap])

ChunkInit ==
    /\ Idle
    /\ NoPure

\* DocumentProcessor(chunk_size, chunk_overlap): the arguments go to the
\* splitter's constructor unchecked; when it raises there is no processor.
DocumentProcessor(chunk_size, chunk_overlap) ==
    /\ text_splitter' = RecursiveCharacterTextSplitter(chunk_size, chunk_overlap)
    /\ page_content' = <<>>
    /\ pieces' = <<>>
    /\ UNCHANGED <<calc_req, calc_resp>>
    /\ UNCHANGED <<shared, perreq, index>>

\* chunk_documents([page]) for a page with the text `text`.
ChunkDocuments(text) ==
    /\ text_splitter # None
    /\ page_content' = text
    /\ pieces' = split_text(text, text_splitter[1].chunk_size, text_splitter[1].chunk_overlap)
    /\ UNCHANGED <<text_splitter, calc_req, calc_resp>>
    /\ UNCHANGED <<shared, perreq, index>>

ChunkNext ==
    \/ \E chunk_size \in 0..MaxChunk, chunk_overlap \in (0 - 1)..(MaxChunk + 1) :
          DocumentProcessor(chunk_size, chunk_overlap)
    \/ \E text \in Texts : ChunkDocuments(text)

ChunkSpec == ChunkInit /\ [][ChunkNext]_vars

\* C21: every chunk made of a page has between 1 and chunk_size characters,
\* for every page text and every chunk_size and chunk_overlap that the
\* constructor accepts.
C21_ChunkLengthWithinSize ==
    text_splitter # None =>
        \A i \in 1..Len(pieces) :
            1 <= Len(pieces[i]) /\ Len(pieces[i]) <= text_splitter[1].chunk_size

\* A page longer than chunk_size was cut into several chunks by a splitter
\* with an overlap, one of them of full size and two of them sharing text.
C21_Witness ==
    /\ text_splitter # None
    /\ text_splitter[1].chunk_overlap > 0
    /\ Len(page_content) > text_splitter[1].chunk_size
    /\ Len(pieces) >= 2
    /\ \E i \in 1..Len(pieces) : Len(pieces[i]) = text_splitter[1].chunk_size
    /\ Len(join(pieces)) > Len(strip(page_content))

\* C22: a chunker exists only with 0 <= chunk_overlap < chunk_size.
C22_OverlapBelowChunkSize ==
    text_splitter # None =>
        /\ 0 <= text_splitter[1].chunk_overlap
        /\ text_splitter[1].chunk_overlap < text_splitter[1].chunk_size

====
